---- MODULE Spec2Model ----
(***************************************************************************)
(* The FanGraphs free-agent-pool fetchers of CBL-Baseball.                 *)
(*                                                                         *)
(*   structured mode: CBL_Free_Agent_Pool_native_tables_v3/scripts/        *)
(*                    fetch_fangraphs_fa_pool.py  (call_api, normalize,    *)
(*                    save_json, fetch_one, main)                          *)
(*   html mode:       scripts/fetch_fangraphs_fa_pool.py (scrape_table,    *)
(*                    save_json, main)                                     *)
(*                                                                         *)
(* Times are fixed-point integers, one unit = 0.0001 s, so that the        *)
(* products of the backoff schedule (2.0, 3.6, 6.48, 11.664, 20.9952) are  *)
(* exact.                                                                  *)
(***************************************************************************)
EXTENDS Integers, Sequences, FiniteSets, TLC

\* ---------------------------------------------------------------- bounds
\* Largest number of elements, over all candidate keys together, of a payload
\* handed to normalize on its own.
MaxLen == 3

\* ------------------------------------------------------ program constants
\* A default budget that is one too large.
TriesOffByOne == 6 + 1
\* call_api(params, tries=6)
tries == 6
\* delay = 2.0
BaseDelay == 20000
\* delay = min(delay * 1.8, 20.0): the factor 1.8 as GrowthNum / GrowthDen
GrowthNum == 18
GrowthDen == 10
\* delay = min(delay * 1.8, 20.0): the ceiling
MaxDelay == 200000
\* time.sleep(1.2) between the jobs of the structured runner
PaceStructured == 12000
\* time.sleep(1.0) between the jobs of the HTML runner
PaceHtml == 10000

Min(a, b) == IF a <= b THEN a ELSE b

\* ------------------------------------------------------------ JSON values
\* A decoded JSON value: t is its Python type, id tells scalars and row
\* mappings apart, items holds the elements of a list (or the fields of a
\* scraped record).
JNull == [t |-> "null", id |-> 0, items |-> <<>>]
JNum(n) == [t |-> "scalar", id |-> n, items |-> <<>>]
JDict(n) == [t |-> "dict", id |-> n, items |-> <<>>]
JList(s) == [t |-> "list", id |-> 0, items |-> s]
\* dict.get(key) of a key the mapping does not hold: None
Absent == [t |-> "absent", id |-> 0, items |-> <<>>]

\* isinstance(v, list)
IsList(v) == v.t = "list"
\* isinstance(r, dict)
IsDict(v) == v.t = "dict"

\* The keys normalize looks at, in the order it looks at them.
CandidateKeys == <<"data", "rows", "result", "results">>
FallbackKeys == <<"rows", "result", "results">>

\* A decoded response body: a mapping with (some of) the candidate keys, or a
\* JSON value that is no mapping (t = "list", "null", "scalar").
Mapping(d, r, rt, rs) ==
    [t |-> "dict", data |-> d, rows |-> r, result |-> rt, results |-> rs]
NonMapping(type) ==
    [t |-> type, data |-> Absent, rows |-> Absent, result |-> Absent, results |-> Absent]
\* A body that is no JSON at all: r.json() raises on it.
NotJson == NonMapping("notjson")

\* ---------------------------------------------------------------- normalize
\* Exceptions: type, the status they carry, and the attempt that raised them.
Error(type, status, k) == [type |-> type, status |-> status, attempt |-> k]
None == Error("None", 0, 0)

\* The outcome of a call: a returned value, or an exception leaving it.
Ret(v) == [ok |-> TRUE, val |-> v, err |-> None]
Raise(e) == [ok |-> FALSE, val |-> <<>>, err |-> e]

\* A filter on truthiness in place of the type test: only null is dropped.
KeepNonNull(s) == SelectSeq(s, LAMBDA r : r.t # "null")
\* [r for r in v if isinstance(r, dict)]
RECURSIVE KeepDicts(_)
KeepDicts(s) ==
    IF s = <<>> THEN <<>>
    ELSE IF IsDict(Head(s)) THEN <<Head(s)>> \o KeepDicts(Tail(s))
    ELSE KeepDicts(Tail(s))

\* payload.get(key): AttributeError is raised before this on a non-mapping
Get(payload, key) == payload[key]

\* for key in ("rows", "result", "results"): ... ; return []
RECURSIVE ScanKeys(_, _)
ScanKeys(payload, keys) ==
    IF keys = <<>> THEN <<>>
    ELSE LET v == Get(payload, Head(keys))
         IN IF IsList(v) THEN KeepDicts(v.items)
            ELSE ScanKeys(payload, Tail(keys))

\* normalize with truthiness tests (if data: ...) in place of isinstance:
\* an empty sequence is passed over like a non-sequence.
RECURSIVE ScanKeysNonEmpty(_, _)
ScanKeysNonEmpty(payload, keys) ==
    IF keys = <<>> THEN <<>>
    ELSE LET v == Get(payload, Head(keys))
         IN IF IsList(v) /\ v.items # <<>> THEN KeepDicts(v.items)
            ELSE ScanKeysNonEmpty(payload, Tail(keys))
normalizeNonEmpty(payload) ==
    IF payload.t # "dict" THEN Raise(Error("AttributeError", 0, 0))
    ELSE Ret(ScanKeysNonEmpty(payload, CandidateKeys))

\* normalize with subscripts (payload["data"]) in place of payload.get: a
\* key the mapping does not hold raises KeyError.
normalizeSubscript(payload) ==
    IF payload.t # "dict" THEN Raise(Error("TypeError", 0, 0))
    ELSE IF \E i \in 1..Len(CandidateKeys) : Get(payload, CandidateKeys[i]) = Absent
        THEN Raise(Error("KeyError", 0, 0))
    ELSE Ret(ScanKeys(payload, CandidateKeys))

\* payload.get on a value that is no mapping raises AttributeError
normalize(payload) ==
    IF payload.t # "dict" THEN Raise(Error("AttributeError", 0, 0))
    ELSE LET data == Get(payload, "data")
         IN IF IsList(data) THEN Ret(KeepDicts(data.items))
            ELSE Ret(ScanKeys(payload, FallbackKeys))

\* ------------------------------------------------------------------ tasks
\* A task list in which the second entry repeats the output name of the first.
tasksDuplicateName ==
    << "hit_am_bat_all", "hit_am_bat_all", "hit_am_bat_rhp",
       "hit_nz_bat_all", "hit_nz_bat_lhp", "hit_nz_bat_rhp",
       "sp_pit_all", "sp_pit_lhb", "sp_pit_rhb",
       "rp_am_pit_all", "rp_am_pit_lhb", "rp_am_pit_rhb",
       "rp_nz_pit_all", "rp_nz_pit_lhb", "rp_nz_pit_rhb" >>
tasks ==
    << "hit_am_bat_all", "hit_am_bat_lhp", "hit_am_bat_rhp",
       "hit_nz_bat_all", "hit_nz_bat_lhp", "hit_nz_bat_rhp",
       "sp_pit_all", "sp_pit_lhb", "sp_pit_rhb",
       "rp_am_pit_all", "rp_am_pit_lhb", "rp_am_pit_rhb",
       "rp_nz_pit_all", "rp_nz_pit_lhb", "rp_nz_pit_rhb" >>
Jobs == 1..Len(tasks)
OutNames == {tasks[j] : j \in Jobs}

\* -------------------------------------------------------------- transport
\* Statuses call_api names: raise RuntimeError on these.
RetryStatuses == {429, 403, 502, 503, 504}
\* The statuses the stubbed transport answers with.
Statuses == {200, 204, 404, 500} \cup RetryStatuses

\* One answer of requests.get: an exception (timeout, connection reset), or a
\* response with a status and a body.
Exception == [exc |-> TRUE, status |-> 0, body |-> NotJson]
Response(s, b) == [exc |-> FALSE, status |-> s, body |-> b]
NoResponse == [exc |-> FALSE, status |-> 0, body |-> NotJson]

\* The JSON document of an error page: a mapping without candidate keys.
ErrorDoc == Mapping(Absent, Absent, Absent, Absent)

\* Response.raise_for_status(): HTTPError for 4xx and 5xx
RaisesForStatus(status) == status >= 400 /\ status < 600

\* The try block of call_api on the answer o of attempt k:
\*   r = requests.get(...); whitelisted status -> RuntimeError;
\*   r.raise_for_status(); return r.json()
TryBlock(o, k) ==
    IF o.exc THEN Raise(Error("ConnectionError", 0, k))
    ELSE IF o.status \in RetryStatuses THEN Raise(Error("RuntimeError", o.status, k))
    ELSE IF RaisesForStatus(o.status) THEN Raise(Error("HTTPError", o.status, k))
    ELSE IF o.body = NotJson THEN Raise(Error("JSONDecodeError", o.status, k))
    ELSE Ret(o.body)

\* for attempt in range(1, tries + 1): the loop is over after tries iterations
LoopEnds(k) == k > tries

\* A handler that catches the RuntimeError of the whitelisted statuses only.
CaughtOnlyRuntimeError(e) == e.type = "RuntimeError"
\* except Exception as e: every exception of the try block is one
Caught(e) == TRUE

\* The budget check one attempt early.
BudgetSpentEarly(k) == k = tries - 1
\* The handler without its budget check.
BudgetSpentNever(k) == FALSE
\* if attempt == tries: raise
BudgetSpent(k) == k = tries

\* The growth step without the ceiling.
NextDelayUncapped(d) == (d * GrowthNum) \div GrowthDen
\* delay = min(delay * 1.8, 20.0)
NextDelay(d) == Min((d * GrowthNum) \div GrowthDen, MaxDelay)

\* A raise of the error recorded before this attempt.
ReraisedStale(e, last) == last
\* The exception the bare raise of the handler re-raises: the one being handled.
Reraised(e, last) == e

\* -------------------------------------------------------------- artifacts
\* (OUT_DIR / f"{name}.json"): absent, or holding the rows json.dumps wrote
NoFile == [present |-> FALSE, rows |-> <<>>]
File(rs) == [present |-> TRUE, rows |-> rs]
\* What an earlier run left behind.
OldFile == File(<<JDict(9), JDict(8)>>)

\* A file opened for appending.
WriteTextAppend(old, rs) == File(old.rows \o rs)
\* write_text(json.dumps(rows)): the whole file is replaced
WriteText(old, rs) == File(rs)

\* One file name for every task.
ArtifactOfFirst(j) == tasks[1]
\* OUT_DIR / f"{name}.json" for the out_name of the j-th task
ArtifactOf(j) == tasks[j]

\* A handler around the job that goes on with the next one.
ExceptionSwallowed == "pace"
\* A handler around the fetch that saves whatever rows there are.
ExceptionSaved == "save"
\* Neither fetch_one nor main has a handler: an exception that reaches the
\* loop of main leaves it, and the run is over.
ExceptionInMain == "halted"

\* ------------------------------------------------------------- HTML pages
\* A page is the sequence of its tables; a table has column headers (a name,
\* whether the header text carries surrounding whitespace, whether every cell
\* of the column is empty) and a number of data rows.
Col(name, pad, allna) == [name |-> name, pad |-> pad, allna |-> allna]
Table(cols, n) == [cols |-> cols, nrows |-> n]
HtmlDoc(tables) == [t |-> "html", tables |-> tables]
NoTableDoc == HtmlDoc(<<>>)

\* pd.read_html(text): the tables of the page; pandas raises
\* ValueError("No tables found") when the page has none.
ReadHtml(doc) ==
    IF doc.tables = <<>> THEN Raise(Error("ValueError", 0, 0)) ELSE Ret(doc.tables)

\* df.dropna(axis=1, how="all")
DropNa(cols) == SelectSeq(cols, LAMBDA c : ~c.allna)
\* df.columns = [str(c).strip() for c in df.columns]
StripNames(cols) == [i \in 1..Len(cols) |-> [cols[i] EXCEPT !.pad = FALSE]]
\* The field of a record that a column header names.
Field(c) == [t |-> IF c.pad THEN "padded" ELSE "scalar", id |-> c.name, items |-> <<>>]
\* df.to_dict(orient="records")
ToRecords(cols, n) ==
    [r \in 1..n |-> [t |-> "dict", id |-> r,
                     items |-> [i \in 1..Len(cols) |-> Field(cols[i])]]]

\* scrape_table with a handler that turns a failed request into no rows.
scrape_tableLenient(o) ==
    IF o.exc \/ RaisesForStatus(o.status) THEN Ret(<<>>)
    ELSE LET tables == ReadHtml(o.body)
         IN IF ~tables.ok THEN Raise(tables.err)
            ELSE LET df == tables.val[1]
                 IN Ret(ToRecords(StripNames(DropNa(df.cols)), df.nrows))

\* scrape_table on the answer o of its one requests.get
scrape_table(o) ==
    IF o.exc THEN Raise(Error("ConnectionError", 0, 1))
    ELSE IF RaisesForStatus(o.status) THEN Raise(Error("HTTPError", o.status, 1))
    ELSE LET tables == ReadHtml(o.body)
         IN IF ~tables.ok THEN Raise(tables.err)
            ELSE IF tables.val = <<>> THEN Ret(<<>>)
            ELSE LET df == tables.val[1]
                 IN Ret(ToRecords(StripNames(DropNa(df.cols)), df.nrows))

\* ------------------------------------------------------ stubbed transport
\* Bodies the provider answers a successful structured request with.
GoodPayloads ==
    << Mapping(JList(<<JDict(1), JNull, JDict(2)>>), Absent, Absent, Absent),
       Mapping(JNum(7), JList(<<>>), Absent, JList(<<JDict(1)>>)),
       Mapping(Absent, JDict(1), JList(<<JDict(2), JList(<<JDict(1)>>), JDict(1)>>), Absent),
       Mapping(Absent, Absent, Absent, Absent) >>
\* Pages the provider answers a successful HTML request with.
GoodPages ==
    << HtmlDoc(<<Table(<<Col(1, FALSE, FALSE), Col(2, FALSE, TRUE), Col(3, TRUE, FALSE)>>, 2)>>),
       HtmlDoc(<<Table(<<Col(1, TRUE, FALSE)>>, 1), Table(<<Col(2, FALSE, FALSE)>>, 2)>>),
       HtmlDoc(<<Table(<<Col(1, FALSE, FALSE)>>, 0)>>),
       HtmlDoc(<<Table(<<Col(4, FALSE, FALSE), Col(5, FALSE, FALSE)>>, 1)>>) >>
\* Jobs whose successful answer has the wrong shape (0: no such job).
BadJobs == {0, 2, 9}

\* The success body of job j under the stub (shift s, bad job b).
StubBody(m, s, b, j) ==
    IF m = "structured"
    THEN IF j = b THEN NonMapping("list")
         ELSE GoodPayloads[((j + s) % Len(GoodPayloads)) + 1]
    ELSE IF j = b THEN NoTableDoc
         ELSE GoodPages[((j + s) % Len(GoodPages)) + 1]
Stubs(m) ==
    { [j \in Jobs |-> StubBody(m, s, b, j)] : s \in 0..(Len(GoodPayloads) - 1), b \in BadJobs }

\* What the artifacts held before the run: nothing, or every second one the
\* rows of an earlier run.
Befores ==
    { [n \in OutNames |-> NoFile],
      [n \in OutNames |-> IF \E j \in Jobs : tasks[j] = n /\ j % 2 = 0
                          THEN OldFile ELSE NoFile] }

\* The answers requests.get can give to the request of job j.
Answers(m, body) ==
    {Exception}
    \cup {Response(200, body)}
    \cup (IF m = "structured"
          THEN {Response(s, NotJson) : s \in Statuses}
               \cup {Response(s, ErrorDoc) : s \in Statuses \ {200, 204}}
          ELSE {Response(s, NoTableDoc) : s \in Statuses \ {200}})

\* ------------------------------------------------------------------- state
VARIABLES
    run,        \* which execution of the script this is: 1 or 2
    firstEnd,   \* how the first execution ended: its last position and job
    mode,       \* which of the two scripts runs: "structured" or "html"
    stub,       \* the success body of each job's request
    before,     \* the artifacts as they were when the run started
    artifacts,  \* output name -> file under data/fa
    writes,     \* output name -> number of write_text calls of this run
    job,        \* index in tasks of the job of the current loop iteration
    pc,         \* position: fetch, attempt, normalize, save, pace, halted, done
    attempt,    \* call_api: the loop variable
    delay,      \* call_api: the next backoff delay
    last_err,   \* call_api: last_err
    resp,       \* the answer to the latest requests.get
    payload,    \* fetch_one: payload
    rows,       \* fetch_one: rows / main: recs
    raised,     \* the exception that left main (None while none has)
    calls,      \* requests.get calls of the current job
    called,     \* jobs for which requests.get has been called
    sleeps,     \* the backoff delays slept in the current call_api
    events,     \* "call" and "sleep" of the current job, in order
    paced       \* the inter-job delays slept so far

vars == << run, firstEnd, mode, stub, before, artifacts, writes, job, pc, attempt, delay, last_err,
           resp, payload, rows, raised, calls, called, sleeps, events, paced >>

\* How an execution ended; NotEnded while the first is still running.
Ended(p, j) == [pc |-> p, job |-> j]
NotEnded == Ended("none", 0)

\* Module import (OUT_DIR.mkdir) and entry into main.
Init ==
    /\ run = 1
    /\ firstEnd = NotEnded
    /\ mode \in {"structured", "html"}
    /\ stub \in Stubs(mode)
    /\ before \in Befores
    /\ artifacts = before
    /\ writes = [n \in OutNames |-> 0]
    /\ job = 1
    /\ pc = "fetch"
    /\ attempt = 0
    /\ delay = 0
    /\ last_err = None
    /\ resp = NoResponse
    /\ payload = NotJson
    /\ rows = <<>>
    /\ raised = None
    /\ calls = 0
    /\ called = {}
    /\ sleeps = <<>>
    /\ events = <<>>
    /\ paced = <<>>

\* ----------------------------------------------------------------- actions
\* A call_api whose counter and delay outlive the call: a later fetch goes
\* on from where the earlier one stopped.
CallApiEnterKeepsState ==
    /\ mode = "structured"
    /\ pc = "fetch"
    /\ pc' = "attempt"
    /\ attempt' = (IF attempt = 0 THEN 1 ELSE attempt)
    /\ delay' = (IF delay = 0 THEN BaseDelay ELSE delay)
    /\ last_err' = None
    /\ calls' = 0
    /\ sleeps' = <<>>
    /\ events' = <<>>
    /\ UNCHANGED << run, firstEnd, mode, stub, before, artifacts, writes, job, resp, payload, rows,
                    raised, called, paced >>

\* fetch_one up to the first loop iteration of call_api:
\*   delay = 2.0; last_err = None; for attempt in range(1, tries + 1)
CallApiEnter ==
    /\ mode = "structured"
    /\ pc = "fetch"
    /\ pc' = "attempt"
    /\ attempt' = 1
    /\ delay' = BaseDelay
    /\ last_err' = None
    /\ calls' = 0
    /\ sleeps' = <<>>
    /\ events' = <<>>
    /\ UNCHANGED << run, firstEnd, mode, stub, before, artifacts, writes, job, resp, payload, rows,
                    raised, called, paced >>

\* One iteration of the loop of call_api: the request, and on a failure the
\* handler (last_err = e; raise on the last attempt; else sleep, grow delay).
\* When the loop runs out, the statement after it raises last_err.
CallApiAttempt ==
    /\ mode = "structured"
    /\ pc = "attempt"
    /\ IF LoopEnds(attempt)
       THEN /\ raised' = (IF last_err # None THEN last_err
                          ELSE Error("RuntimeError", 0, 0))
            /\ pc' = ExceptionInMain
            /\ UNCHANGED << attempt, delay, last_err, resp, payload, calls, called,
                            sleeps, events >>
       ELSE \E o \in Answers(mode, stub[job]) :
            LET res == TryBlock(o, attempt)
            IN /\ resp' = o
               /\ calls' = calls + 1
               /\ called' = called \cup {job}
               /\ IF res.ok
                  THEN /\ payload' = res.val
                       /\ pc' = "normalize"
                       /\ events' = Append(events, "call")
                       /\ UNCHANGED << attempt, delay, last_err, raised, sleeps >>
                  ELSE IF ~Caught(res.err)
                  THEN /\ raised' = res.err
                       /\ pc' = ExceptionInMain
                       /\ events' = Append(events, "call")
                       /\ UNCHANGED << attempt, delay, last_err, payload, sleeps >>
                  ELSE /\ last_err' = res.err
                       /\ IF BudgetSpent(attempt)
                          THEN /\ raised' = Reraised(res.err, last_err)
                               /\ pc' = ExceptionInMain
                               /\ events' = Append(events, "call")
                               /\ UNCHANGED << attempt, delay, sleeps >>
                          ELSE /\ sleeps' = Append(sleeps, delay)
                               /\ events' = events \o <<"call", "sleep">>
                               /\ delay' = NextDelay(delay)
                               /\ attempt' = attempt + 1
                               /\ pc' = "attempt"
                               /\ UNCHANGED raised
                       /\ UNCHANGED payload
    /\ UNCHANGED << run, firstEnd, mode, stub, before, artifacts, writes, job, rows, paced >>

\* fetch_one: rows = normalize(payload)
Normalize ==
    /\ mode = "structured"
    /\ pc = "normalize"
    /\ LET res == normalize(payload)
       IN IF res.ok
          THEN /\ rows' = res.val
               /\ pc' = "save"
               /\ UNCHANGED raised
          ELSE /\ raised' = res.err
               /\ pc' = ExceptionInMain
               /\ UNCHANGED rows
    /\ UNCHANGED << run, firstEnd, mode, stub, before, artifacts, writes, job, attempt, delay, last_err,
                    resp, payload, calls, called, sleeps, events, paced >>

\* main of the HTML script: recs = scrape_table(url)
ScrapeTable ==
    /\ mode = "html"
    /\ pc = "fetch"
    /\ \E o \in Answers(mode, stub[job]) :
        LET res == scrape_table(o)
        IN /\ resp' = o
           /\ calls' = 1
           /\ called' = called \cup {job}
           /\ events' = <<"call">>
           /\ IF res.ok
              THEN /\ rows' = res.val
                   /\ pc' = "save"
                   /\ UNCHANGED raised
              ELSE /\ raised' = res.err
                   /\ pc' = ExceptionInMain
                   /\ UNCHANGED rows
    /\ UNCHANGED << run, firstEnd, mode, stub, before, artifacts, writes, job, attempt, delay, last_err,
                    payload, sleeps, paced >>

\* save_json(out_name, rows)
SaveJson ==
    /\ pc = "save"
    /\ artifacts' = [artifacts EXCEPT ![ArtifactOf(job)] = WriteText(@, rows)]
    /\ writes' = [writes EXCEPT ![ArtifactOf(job)] = @ + 1]
    /\ pc' = "pace"
    /\ UNCHANGED << run, firstEnd, mode, stub, before, job, attempt, delay, last_err, resp, payload,
                    rows, raised, calls, called, sleeps, events, paced >>

\* time.sleep(1.2) / time.sleep(1.0)
PaceDelay(m) == IF m = "structured" THEN PaceStructured ELSE PaceHtml

\* A loop of main that goes to the next task without sleeping.
PaceNoSleep ==
    /\ pc = "pace"
    /\ IF job < Len(tasks)
       THEN /\ job' = job + 1
            /\ pc' = "fetch"
       ELSE /\ pc' = "done"
            /\ UNCHANGED job
    /\ UNCHANGED << run, firstEnd, mode, stub, before, artifacts, writes, attempt, delay, last_err, resp,
                    payload, rows, raised, calls, called, sleeps, events, paced >>

\* The end of a loop iteration of main: the pacing sleep, then the next task
\* or the end of the loop.
Pace ==
    /\ pc = "pace"
    /\ paced' = Append(paced, PaceDelay(mode))
    /\ IF job < Len(tasks)
       THEN /\ job' = job + 1
            /\ pc' = "fetch"
       ELSE /\ pc' = "done"
            /\ UNCHANGED job
    /\ UNCHANGED << run, firstEnd, mode, stub, before, artifacts, writes, attempt, delay, last_err, resp,
                    payload, rows, raised, calls, called, sleeps, events >>

Next ==
    \/ CallApiEnter
    \/ CallApiAttempt
    \/ Normalize
    \/ ScrapeTable
    \/ SaveJson
    \/ Pace

Spec == Init /\ [][Next]_vars

\* ------------------------------------------------------- running it twice
\* The script is started again after its first execution has ended
\* (completed, or halted by an exception): a new process, whose only
\* inheritance is the files under data/fa.
Rerun ==
    /\ run = 1
    /\ pc \in {"done", "halted"}
    /\ run' = 2
    /\ firstEnd' = Ended(pc, job)
    /\ before' = artifacts
    /\ writes' = [n \in OutNames |-> 0]
    /\ job' = 1
    /\ pc' = "fetch"
    /\ attempt' = 0
    /\ delay' = 0
    /\ last_err' = None
    /\ resp' = NoResponse
    /\ payload' = NotJson
    /\ rows' = <<>>
    /\ raised' = None
    /\ calls' = 0
    /\ called' = {}
    /\ sleeps' = <<>>
    /\ events' = <<>>
    /\ paced' = <<>>
    /\ UNCHANGED << mode, stub, artifacts >>

NextTwice ==
    \/ Next
    \/ Rerun

SpecTwice == Init /\ [][NextTwice]_vars

\* ------------------------------------------------- normalize on its own
\* Elements of a row sequence: two row mappings, null, a scalar, a nested list.
Elems == {JDict(1), JDict(2), JNull, JNum(7), JList(<<JDict(1)>>)}
\* Values of a candidate key that are no sequence: key absent, scalar, mapping.
NonLists == {Absent, JNum(7), JDict(1)}

\* Sequences of at most n elements.
SeqsUpTo(n) == UNION { [1..k -> Elems] : k \in 0..n }
\* Values of a candidate key with at most n elements.
KeyValues(n) == NonLists \cup { JList(s) : s \in SeqsUpTo(n) }
\* Number of elements a value adds to the payload.
Size(v) == IF IsList(v) THEN Len(v.items) ELSE 0
\* Decoded bodies that are no mapping.
NonMappings == {NonMapping("list"), NonMapping("null"), NonMapping("scalar")}

\* fetch_one of the first job at the return of call_api with an arbitrary
\* decoded body, answered at the first attempt: a mapping with at most MaxLen
\* elements in the sequences of its candidate keys together, or no mapping.
InitNorm ==
    /\ run = 1
    /\ firstEnd = NotEnded
    /\ mode = "structured"
    /\ \/ payload \in NonMappings
       \/ \E d \in KeyValues(MaxLen) :
          \E r \in KeyValues(MaxLen - Size(d)) :
          \E rt \in KeyValues(MaxLen - Size(d) - Size(r)) :
          \E rs \in KeyValues(MaxLen - Size(d) - Size(r) - Size(rt)) :
              payload = Mapping(d, r, rt, rs)
    /\ stub = [j \in Jobs |-> payload]
    /\ before = [n \in OutNames |-> NoFile]
    /\ artifacts = before
    /\ writes = [n \in OutNames |-> 0]
    /\ job = 1
    /\ pc = "normalize"
    /\ attempt = 1
    /\ delay = BaseDelay
    /\ last_err = None
    /\ resp = Response(200, payload)
    /\ rows = <<>>
    /\ raised = None
    /\ calls = 1
    /\ called = {1}
    /\ sleeps = <<>>
    /\ events = <<"call">>
    /\ paced = <<>>

NextNorm == Normalize

SpecNorm == InitNorm /\ [][NextNorm]_vars

\* ============================================================== properties
\* What the claims call the outcome of one attempt, read off the answer alone.
Succeeds(o) == ~o.exc /\ o.status = 200 /\ o.body # NotJson
FailureKind(o) ==
    IF o.exc THEN "exception"
    ELSE IF o.status \in {429, 403, 502, 503, 504} THEN "whitelisted"
    ELSE IF o.status \in {404, 500} THEN "status"
    ELSE IF o.body = NotJson THEN "decode"
    ELSE "none"
\* The exception type each failure kind is recorded as.
ErrorTypeOf(kind) ==
    CASE kind = "exception" -> "ConnectionError"
      [] kind = "whitelisted" -> "RuntimeError"
      [] kind = "status" -> "HTTPError"
      [] kind = "decode" -> "JSONDecodeError"
      [] OTHER -> "None"
\* An error that left call_api (and not normalize or the HTML scraper).
FetchError(e) ==
    e.type \in {"ConnectionError", "RuntimeError", "HTTPError", "JSONDecodeError"}
Structured == mode = "structured"

\* C1: one fetch of call_api issues at most 6 network calls whatever the
\* transport answers; while the loop is still running fewer than 6 have been
\* issued, and when the 6th attempt has failed the fetch has raised to its
\* caller (no further attempt, no endless loop).
C1_AtMostSixCalls ==
    Structured =>
        /\ calls <= 6
        /\ (pc = "attempt" => calls < 6 /\ calls = attempt - 1)
        /\ (calls = 6 /\ ~Succeeds(resp) => pc = "halted" /\ FetchError(raised))

\* A fetch whose six attempts all failed, the last with status 500.
C1_Witness ==
    /\ Structured /\ pc = "halted" /\ calls = 6
    /\ ~resp.exc /\ resp.status = 500 /\ raised.type = "HTTPError"

\* C2: when attempt k answers 200 with a valid JSON body after k-1 failed
\* attempts, call_api has returned exactly that body, with exactly k network
\* calls (and k-1 delays) and none after it; and call_api raises only after
\* 6 calls, so a success at attempt 6 is not an exhaustion.
C2_SuccessAtAttemptK ==
    Structured =>
        /\ (calls > 0 /\ Succeeds(resp) =>
                /\ pc \in {"normalize", "save", "pace", "fetch", "done", "halted"}
                /\ ~FetchError(raised)
                /\ payload = resp.body
                /\ calls = attempt
                /\ Len(sleeps) = attempt - 1)
        /\ (FetchError(raised) => calls = 6 /\ ~Succeeds(resp))

\* Five failures (the fifth a 503), then 200 with the job's body at attempt 6.
C2_Witness ==
    /\ Structured /\ pc = "normalize" /\ attempt = 6 /\ calls = 6
    /\ Len(sleeps) = 5 /\ last_err.type = "RuntimeError" /\ last_err.status = 503
    /\ resp.status = 200 /\ payload = stub[job] /\ raised = None

\* 2.0 * 1.8^(i-1) in units of 0.0001 s (exact for i <= 5).
RECURSIVE Pow(_, _)
Pow(b, n) == IF n = 0 THEN 1 ELSE b * Pow(b, n - 1)
ScheduledDelay(i) == Min((20000 * Pow(18, i - 1)) \div Pow(10, i - 1), 200000)

\* C3: the i-th backoff delay of a fetch is min(2.0 * 1.8^(i-1), 20.0) s:
\* the delays are a prefix of 2.0, 3.6, 6.48, 11.664, 20.0, at most five,
\* strictly increasing and never above 20.0.
C3_BackoffSchedule ==
    Structured =>
        /\ Len(sleeps) <= 5
        /\ sleeps = SubSeq(<<20000, 36000, 64800, 116640, 200000>>, 1, Len(sleeps))
        /\ \A i \in 1..Len(sleeps) :
            /\ sleeps[i] = ScheduledDelay(i)
            /\ sleeps[i] <= 200000
            /\ (i > 1 => sleeps[i - 1] < sleeps[i])

\* A fetch that has slept all five delays, the fifth at the ceiling.
C3_Witness ==
    /\ Structured /\ Len(sleeps) = 5 /\ sleeps[5] = 200000 /\ sleeps[4] = 116640

NumberOf(ev) == Cardinality({i \in 1..Len(events) : events[i] = ev})

\* C4: in one fetch every backoff delay lies strictly between two network
\* attempts: none before the first attempt, none after the last (whether it
\* succeeded or was the failing 6th); a delay that is the latest event is
\* followed by a further attempt. When the fetch is over the number of
\* delays is the number of calls minus one.
C4_DelaysOnlyBetweenAttempts ==
    Structured =>
        /\ NumberOf("call") = calls
        /\ NumberOf("sleep") = Len(sleeps)
        /\ \A i \in 1..Len(events) :
            events[i] = "sleep" =>
                /\ i > 1
                /\ events[i - 1] = "call"
                /\ (i < Len(events) => events[i + 1] = "call")
                /\ (i = Len(events) => pc = "attempt" /\ attempt <= 6)
        /\ (calls > 0 /\ pc # "attempt" => Len(sleeps) = calls - 1)

\* An exhausted fetch: six calls, five delays, the last event a call.
C4_Witness ==
    /\ Structured /\ pc = "halted" /\ FetchError(raised)
    /\ events = <<"call", "sleep", "call", "sleep", "call", "sleep",
                  "call", "sleep", "call", "sleep", "call">>

\* C5: every kind of failed attempt k < 6 (whitelisted status, other error
\* status, transport exception, JSON-decode failure of a 200) is handled the
\* same way: the error is recorded as last_err, the delay is slept and
\* attempt k+1 is next; nothing has been raised to the caller.
C5_AllFailuresRetried ==
    Structured /\ calls \in 1..5 /\ FailureKind(resp) # "none" =>
        /\ pc = "attempt"
        /\ attempt = calls + 1
        /\ last_err = Error(ErrorTypeOf(FailureKind(resp)),
                            IF resp.exc THEN 0 ELSE resp.status, calls)
        /\ Len(sleeps) = calls
        /\ raised = None

\* The third attempt answered 200 with an undecodable body; the fourth is next.
C5_Witness ==
    /\ Structured /\ calls = 3 /\ resp.status = 200 /\ resp.body = NotJson
    /\ pc = "attempt" /\ attempt = 4 /\ last_err.type = "JSONDecodeError"

\* C6: when the budget is exhausted the error that reaches the caller is the
\* one captured on the 6th attempt: it carries that attempt's number and the
\* kind and status of that attempt's answer, and it is last_err.
C6_LastErrorRaised ==
    Structured /\ pc = "halted" /\ FetchError(raised) =>
        /\ calls = 6
        /\ raised.attempt = 6
        /\ raised.type = ErrorTypeOf(FailureKind(resp))
        /\ raised.status = (IF resp.exc THEN 0 ELSE resp.status)
        /\ raised = last_err

\* Exhaustion by a transport exception on the 6th attempt.
C6_Witness ==
    /\ Structured /\ pc = "halted" /\ resp.exc
    /\ raised = Error("ConnectionError", 0, 6) /\ Len(sleeps) = 5

\* The rows job j hands to save_json when its request is answered with the
\* stub's success body.
RowsOfJob(j) ==
    IF Structured THEN normalize(stub[j]).val
    ELSE scrape_table(Response(200, stub[j])).val

\* C7: once an exception has left a job (job k = job), the run is halted at
\* that job with an error outcome: no request has been issued and no
\* artifact written for any job after k, and the run is not completed.
C7_HaltAtFailingJob ==
    /\ (raised # None =>
            /\ pc = "halted"
            /\ \A j \in Jobs : j > job => j \notin called /\ writes[tasks[j]] = 0)
    /\ (pc = "halted" => raised # None)
    /\ (pc = "done" => raised = None /\ job = Len(tasks))

\* The HTML run halted at its second job by an error status.
C7_Witness ==
    /\ mode = "html" /\ pc = "halted" /\ job = 2
    /\ raised.type = "HTTPError" /\ writes[tasks[1]] = 1 /\ called = {1, 2}

\* C8: when a run has halted at job k, the artifact of every job before k
\* holds the rows this run wrote for it, and the artifact of every job after
\* k is what it was before the run (earlier content or absent).
C8_HaltedRunArtifacts ==
    pc = "halted" =>
        \A j \in Jobs :
            /\ (j < job => artifacts[tasks[j]] = File(RowsOfJob(j)))
            /\ (j > job => artifacts[tasks[j]] = before[tasks[j]])

\* A structured run halted at job 3 by an exhausted fetch: job 2 replaced an
\* earlier file by its rows, job 4 still holds its earlier file.
C8_Witness ==
    /\ Structured /\ pc = "halted" /\ job = 3 /\ FetchError(raised)
    /\ before[tasks[2]] = OldFile /\ artifacts[tasks[2]] # OldFile
    /\ artifacts[tasks[2]].rows # <<>>
    /\ artifacts[tasks[4]] = OldFile

\* Index in CandidateKeys of the first key that holds a sequence (0: none).
FirstSeqIndex(p) ==
    LET idx == {i \in 1..Len(CandidateKeys) : IsList(p[CandidateKeys[i]])}
    IN IF idx = {} THEN 0 ELSE CHOOSE i \in idx : \A k \in idx : i <= k
\* The sequence held by that key.
ChosenSeq(p) == p[CandidateKeys[FirstSeqIndex(p)]].items
Normalized == pc # "normalize" /\ payload.t = "dict" /\ FirstSeqIndex(payload) # 0

\* C9: normalize takes the rows from the first of data, rows, result,
\* results whose value is a sequence: keys holding a non-sequence are
\* skipped, the first sequence wins even when it is empty and a later key
\* holds rows, and nothing of another key's sequence is in the result.
C9_FirstSequenceWins ==
    Normalized =>
        /\ pc = "save"
        /\ raised = None
        /\ rows = SelectSeq(ChosenSeq(payload), IsDict)
        /\ \A i \in 1..Len(CandidateKeys) :
            i < FirstSeqIndex(payload) => ~IsList(payload[CandidateKeys[i]])

\* data holds a mapping (no sequence), rows the empty sequence, result a
\* row: the result is empty.
C9_Witness ==
    /\ pc = "save" /\ payload.t = "dict"
    /\ payload.data = JDict(1) /\ payload.rows = JList(<<>>)
    /\ payload.result = JList(<<JDict(2)>>)
    /\ rows = <<>>

\* Positions of the mapping elements of a sequence.
DictPositions(s) == {i \in 1..Len(s) : IsDict(s[i])}
\* Rank of position i among them.
RankOf(s, i) == Cardinality({j \in DictPositions(s) : j <= i})

\* C10: the result is exactly the subsequence of the mapping elements of
\* the chosen sequence: one result row per mapping element, the n-th row
\* the n-th mapping element; non-mappings are dropped and nothing raises.
C10_ExactlyTheMappings ==
    Normalized =>
        /\ raised = None
        /\ Len(rows) = Cardinality(DictPositions(ChosenSeq(payload)))
        /\ \A i \in DictPositions(ChosenSeq(payload)) :
            rows[RankOf(ChosenSeq(payload), i)] = ChosenSeq(payload)[i]

\* Two mappings around a nested sequence under the primary key.
C10_Witness ==
    /\ pc = "save" /\ payload.t = "dict"
    /\ payload.data = JList(<<JDict(2), JList(<<JDict(1)>>), JDict(1)>>)
    /\ rows = <<JDict(2), JDict(1)>>

\* C11: for a mapping payload in which no candidate key holds a sequence
\* (each is absent or holds a non-sequence), normalize returns the empty
\* sequence and raises nothing.
C11_NoSequenceGivesEmpty ==
    pc # "normalize" /\ payload.t = "dict" /\ FirstSeqIndex(payload) = 0 =>
        /\ pc = "save"
        /\ raised = None
        /\ rows = <<>>

\* data holds a scalar, result a mapping, rows and results are absent.
C11_Witness ==
    /\ pc = "save" /\ payload = Mapping(JNum(7), Absent, JDict(1), Absent)
    /\ rows = <<>> /\ raised = None

\* The decoded body carries no row sequence under any candidate key.
NoRowSequence(p) == p.t # "dict" \/ FirstSeqIndex(p) = 0

\* C12: whenever a structured job's fetch has succeeded (200, body decodes)
\* and the decoded value carries no row sequence under any candidate key,
\* whatever its shape, the run is not halted at that job: the job writes an
\* empty artifact and the run goes on.
C12_ShapeMismatchNeverHalts ==
    Structured /\ calls > 0 /\ Succeeds(resp) /\ NoRowSequence(resp.body) =>
        /\ pc # "halted"
        /\ raised = None
        /\ (pc \in {"pace", "done"} => artifacts[tasks[job]] = File(<<>>))

\* C13: when an HTML job's response is successful and its page holds no
\* table, the job's result is the empty row sequence: nothing is raised, the
\* run is not halted, and what is saved is the empty sequence.
C13_NoTableGivesEmpty ==
    mode = "html" /\ calls > 0 /\ ~resp.exc /\ resp.status = 200
        /\ resp.body.tables = <<>> =>
        /\ pc # "halted"
        /\ raised = None
        /\ rows = <<>>

\* C14: an HTML job issues exactly one request and never sleeps a backoff
\* delay; when that request raises or is answered with an error status, the
\* failure (of that first attempt) has left main at once: the run is halted
\* at that job and the job has written nothing.
C14_HtmlSingleAttempt ==
    mode = "html" =>
        /\ calls <= 1
        /\ sleeps = <<>>
        /\ called = (IF pc = "fetch" THEN 1..(job - 1) ELSE 1..job)
        /\ (pc # "fetch" => events = <<"call">> /\ calls = 1)
        /\ (calls > 0 /\ (resp.exc \/ resp.status >= 400) =>
                /\ pc = "halted"
                /\ raised = Error(IF resp.exc THEN "ConnectionError" ELSE "HTTPError",
                                  resp.status, 1)
                /\ writes[tasks[job]] = 0)

\* The third HTML job's request raised: one call, no delay, run halted.
C14_Witness ==
    /\ mode = "html" /\ pc = "halted" /\ job = 3 /\ resp.exc
    /\ raised.type = "ConnectionError" /\ events = <<"call">> /\ sleeps = <<>>
    /\ called = {1, 2, 3}

\* C15: the 15 output names of the task list are pairwise distinct; in any
\* run every artifact has been written at most once, a written artifact
\* holds the rows of its own job (no other job has overwritten it), and in a
\* completed run every artifact has been written exactly once.
C15_EachArtifactOnce ==
    /\ Len(tasks) = 15
    /\ \A i, j \in Jobs : i # j => tasks[i] # tasks[j]
    /\ \A n \in OutNames : writes[n] <= 1
    /\ \A j \in Jobs : writes[tasks[j]] = 1 => artifacts[tasks[j]] = File(RowsOfJob(j))
    /\ (pc = "done" => \A n \in OutNames : writes[n] = 1)

\* A completed structured run.
C15_Witness ==
    /\ Structured /\ pc = "done" /\ job = 15
    /\ \A j \in Jobs : writes[tasks[j]] = 1

\* The rows the successful response of job j normalizes to, from the
\* response alone.
ExpectedRows(j) ==
    IF Structured
    THEN IF NoRowSequence(stub[j]) THEN <<>>
         ELSE SelectSeq(ChosenSeq(stub[j]), IsDict)
    ELSE LET df == stub[j].tables[1]
         IN [r \in 1..df.nrows |->
                [t |-> "dict", id |-> r,
                 items |-> [i \in 1..Len(DropNa(df.cols)) |->
                               [t |-> "scalar", id |-> DropNa(df.cols)[i].name,
                                items |-> <<>>]]]]

\* C16: once a job has completed, its artifact holds exactly the normalized
\* rows of that job's successful response, in order, whatever the artifact
\* held before: earlier content is replaced, not merged or appended to.
C16_ArtifactIsNormalizedRows ==
    /\ \A j \in Jobs :
        (j < job \/ (j = job /\ pc \in {"pace", "done"})) =>
            artifacts[tasks[j]] = [present |-> TRUE, rows |-> ExpectedRows(j)]
    /\ (pc = "pace" =>
            /\ ~resp.exc /\ resp.status = 200 /\ resp.body = stub[job]
            /\ artifacts[tasks[job]].rows = rows)

\* The second structured job has replaced an earlier file by its two rows.
C16_Witness ==
    /\ Structured /\ pc = "pace" /\ job = 2
    /\ before[tasks[2]] = OldFile
    /\ artifacts[tasks[2]] = File(<<JDict(2), JDict(1)>>)

\* C17: when the script is run a second time and the second execution ends
\* where the first did (the transport gives the same responses), every
\* artifact is what it was after the first execution; and after a completed
\* execution every artifact holds the rows of its job, whatever it held
\* before.
C17_SecondRunSameArtifacts ==
    /\ (run = 2 /\ pc \in {"done", "halted"} /\ firstEnd = Ended(pc, job) =>
            artifacts = before)
    /\ (pc = "done" =>
            \A j \in Jobs : artifacts[tasks[j]] = [present |-> TRUE, rows |-> ExpectedRows(j)])

\* Two completed structured executions, the second leaving the files as
\* the first wrote them.
C17_Witness ==
    /\ Structured /\ run = 2 /\ pc = "done" /\ firstEnd = Ended("done", 15)
    /\ artifacts = before
    /\ artifacts[tasks[2]] = File(<<JDict(2), JDict(1)>>)
    /\ \A j \in Jobs : writes[tasks[j]] = 1

\* C18: jobs run one at a time in list order: the jobs that have made a
\* network call are exactly the jobs up to the current one, every earlier job
\* has had its artifact written once, and exactly one pacing sleep of the
\* fixed length lies between the calls of one job and those of the next.
C18_JobsInOrderAndPaced ==
    /\ called \in {1..(job - 1), 1..job}
    /\ (pc # "fetch" /\ calls > 0 => job \in called)
    /\ \A k \in called : \A i \in 1..(k - 1) :
            /\ writes[tasks[i]] = 1
            /\ Len(paced) >= k - 1
            /\ paced[i] = PaceDelay(mode)
    /\ Len(paced) = (IF pc = "done" THEN Len(tasks) ELSE job - 1)
    /\ \A i \in DOMAIN paced : paced[i] = PaceDelay(mode)

\* The third structured job has made its first call, after two written
\* artifacts and two pacing sleeps of 1.2 s.
C18_Witness ==
    /\ Structured /\ job = 3 /\ pc = "attempt" /\ calls = 1
    /\ called = {1, 2, 3}
    /\ paced = <<PaceStructured, PaceStructured>>
    /\ writes[tasks[1]] = 1 /\ writes[tasks[2]] = 1 /\ writes[tasks[3]] = 0

\* C19: an artifact is written only once its job's fetch and normalization
\* have succeeded; until then, and when the run halts at that job, the job's
\* artifact is exactly what it was before the run.
C19_FailingJobArtifactUntouched ==
    /\ \A j \in Jobs : writes[tasks[j]] > 0 =>
            j < job \/ (j = job /\ pc \in {"pace", "done"})
    /\ (pc \in {"pace", "done"} =>
            /\ raised = None
            /\ ~resp.exc /\ resp.status = 200
            /\ rows = ExpectedRows(job))
    /\ (pc \notin {"pace", "done"} =>
            /\ artifacts[tasks[job]] = before[tasks[job]]
            /\ writes[tasks[job]] = 0)
    /\ (pc = "halted" <=> raised # None)

\* A run halted at job 2 by a failed normalization, with the old content of
\* that job's artifact still in place.
C19_Witness ==
    /\ Structured /\ pc = "halted" /\ job = 2
    /\ raised.type = "AttributeError"
    /\ before[tasks[2]] = OldFile
    /\ artifacts[tasks[2]] = OldFile
    /\ writes[tasks[2]] = 0

\* C20: every fetch of a structured job starts with attempt 1, the base
\* delay of 2.0 s, no last error and no sleep, whatever the counter and the
\* delay were left at by the job before.
C20_RetryStateLocal ==
    /\ [](Structured /\ pc = "attempt" /\ calls = 0 =>
            /\ attempt = 1 /\ delay = BaseDelay
            /\ last_err = None /\ sleeps = <<>>)
    /\ [][Structured /\ pc = "fetch" =>
            /\ pc' = "attempt" /\ attempt' = 1 /\ delay' = BaseDelay
            /\ last_err' = None /\ calls' = 0]_vars

\* Job 2 is about to fetch after job 1 used all six attempts and reached the
\* capped delay.
C20_Witness ==
    /\ Structured /\ pc = "fetch" /\ job = 2
    /\ attempt = tries /\ delay = MaxDelay
    /\ last_err # None

====
